---- MODULE Spec2Model ----
(***************************************************************************)
(* Mission control: the state machine (@state: action registry, dispatch,  *)
(* diff, event bus) and the socket gateway with its authentication gate    *)
(* (@socket, socketAuth).                                                  *)
(*                                                                         *)
(* Strings that the code transforms or splits are sequences of one-letter  *)
(* strings, so that toUpperCase and the split on ':' are computed.  A      *)
(* topic is the sequence of its ':'-separated segments.                    *)
(***************************************************************************)
EXTENDS Integers, Sequences, FiniteSets, TLC

VARIABLES
    actions,        \* @state: the registry, action id -> [reducer, validate]
    state,          \* @state: the current snapshot, key -> value
    all,            \* emitter: the onAny listeners, in registration order
    tree,           \* emitter: the topic listeners [event, fn], in registration order
    handles,        \* the functions subscribe returned to the internal modules that keep them
    heap,           \* the objects passed as action data, by reference: what each holds now
    held,           \* the object of a dispatch an internal module kept and wrote to
    nsps,           \* socketIO.nsps: per namespace its `sockets` and its `connected`
    conn,           \* per socket: "none" | "open" | "closed"
    authenticated,  \* per socket: socket.authenticated
    timer,          \* per socket: authTimeoutId: "none" | "armed" | "cleared" | "fired"
    acks,           \* per socket: `unauthorized` emits whose ack callback is outstanding
    subs,           \* per socket: one `subscriptions` table per onAuthentication run
    closedBy,       \* per socket: "none" | "client" | "auth" (socket.disconnect() of socketAuth)
    hist,           \* per socket: what has happened on it so far (observation only)
    calls,          \* the callAction / emitEvent invocations of the last step, with their effects
    wire            \* the socket emits of the last step, in order

vars == <<actions, state, all, tree, handles, heap, held, nsps, conn, authenticated,
          timer, acks, subs, closedBy, hist, calls, wire>>

storeVars == <<actions, state, all, tree, handles, heap, held>>
sockVars == <<nsps, conn, authenticated, timer, acks, subs, closedBy, hist>>

----------------------------------------------------------------------------
(* Bounds of the model *)

MaxConns == 2       \* sockets that may connect
MaxCount == 2       \* cap of the counter kept in the snapshot
MaxListeners == 1   \* subscriptions made by internal modules
MaxSetups == 1      \* successful authenticate messages handled per socket
MaxResetups == 2    \* the same, on the socket of ReauthSpec
MaxHandles == 2     \* subscribe calls whose returned function is kept
MaxHandleCalls == 2 \* calls of one returned function

Conns == 1..MaxConns

----------------------------------------------------------------------------
(* Strings *)

SegUpdate == <<"u", "p", "d", "a", "t", "e">>
SegAction == <<"a", "c", "t", "i", "o", "n">>
Star == <<"*">>
KeyCount == <<"c", "o", "u", "n", "t">>
KeyFlag == <<"f", "l", "a", "g">>
KeyBahn == <<"b", "a", "h", "n">>
AllEvents == <<"a", "l", "l", "-", "e", "v", "e", "n", "t", "s">>

UpperChar(ch) ==
    CASE ch = "a" -> "A" [] ch = "b" -> "B" [] ch = "c" -> "C" [] ch = "d" -> "D"
      [] ch = "e" -> "E" [] ch = "f" -> "F" [] ch = "g" -> "G" [] ch = "h" -> "H"
      [] ch = "i" -> "I" [] ch = "j" -> "J" [] ch = "k" -> "K" [] ch = "l" -> "L"
      [] ch = "m" -> "M" [] ch = "n" -> "N" [] ch = "o" -> "O" [] ch = "p" -> "P"
      [] ch = "q" -> "Q" [] ch = "r" -> "R" [] ch = "s" -> "S" [] ch = "t" -> "T"
      [] ch = "u" -> "U" [] ch = "v" -> "V" [] ch = "w" -> "W" [] ch = "x" -> "X"
      [] ch = "y" -> "Y" [] ch = "z" -> "Z" [] OTHER -> ch

\* String.prototype.toUpperCase
ToUpperCase(s) == [i \in DOMAIN s |-> UpperChar(s[i])]

----------------------------------------------------------------------------
(* @state: snapshots, reducers and validators *)

\* A snapshot is a plain object: a function from the keys it owns to values.
EmptyObject == [k \in {} |-> 0]

\* Object.assign(target, source): the own keys of source written over target
ObjectAssign(target, source) ==
    [k \in (DOMAIN target) \cup (DOMAIN source) |->
        IF k \in DOMAIN source THEN source[k] ELSE target[k]]

\* Own keys in Object.keys order.  Insertion order is abstracted to one
\* fixed order of the keys the model uses.
KeyOrder == <<KeyCount, KeyFlag, KeyBahn>>
Keys == {KeyOrder[i] : i \in DOMAIN KeyOrder}
ObjectKeys(o) == SelectSeq(KeyOrder, LAMBDA k : k \in DOMAIN o)

\* ./initial-state
InitialState == (KeyCount :> 0) @@ (KeyFlag :> 0)

\* The objects callers pass as action data, by reference: what each holds
\* when it is made.  The first two are distinct objects with the same
\* content.  A snapshot key set to an object holds the reference, so that
\* = on it is ===.
Objects == <<[routes |-> "a"], [routes |-> "a"], [routes |-> "b"]>>

\* The reducers the domain modules register.  Each is pure: it builds a new
\* object from the old state and the action data.  "update" is the one of
\* BAHN:UPDATE: {...state, bahn: data}.  "readValue" reads a property of
\* the action data: (state, data) => ({...state, flag: data.value}).
Reduce(reducer, oldState, data) ==
    CASE reducer = "update" -> ObjectAssign(oldState, (KeyBahn :> data.ref))
      [] reducer = "increment" ->
            ObjectAssign(oldState,
                (KeyCount :> ((IF KeyCount \in DOMAIN oldState
                               THEN oldState[KeyCount] ELSE 0) + data.val)))
      [] reducer = "setFlag" -> ObjectAssign(oldState, (KeyFlag :> data.val))
      [] reducer = "readValue" -> ObjectAssign(oldState, (KeyFlag :> data.val))
      [] reducer = "clearFlag" ->
            [k \in (DOMAIN oldState) \ {KeyFlag} |-> oldState[k]]
      [] OTHER -> oldState

\* The validators the domain modules register.  "hasValue" reads a
\* property of the action data: data => typeof data.value === 'number'.
Validate(validate, data) ==
    CASE validate = "isNumber" -> data.type = "number"
      [] validate = "isObject" -> data.type = "object"
      [] validate = "hasValue" -> data.type = "number"
      [] OTHER -> TRUE

\* The calls of a reducer or a validator that throw: reading a property of
\* undefined is a TypeError.
ReduceThrows(reducer, oldState, data) ==
    reducer = "readValue" /\ data.type = "undefined"
ValidateThrows(validate, data) ==
    validate = "hasValue" /\ data.type = "undefined"

\* What the domain modules register at startup: (id, reducer, validate).
IdInc == <<"i", "n", "c">>
IdIncUp == <<"I", "N", "C">>
IdSetUp == <<"S", "E", "T">>
IdDelUp == <<"D", "E", "L">>
Registrations ==
    { <<IdInc, [reducer |-> "increment", validate |-> "isNumber"]>>,
      <<IdIncUp, [reducer |-> "increment", validate |-> "isNumber"]>>,
      <<IdSetUp, [reducer |-> "setFlag", validate |-> "isNumber"]>>,
      <<IdDelUp, [reducer |-> "clearFlag", validate |-> "always"]>> }

\* The id of BAHN:UPDATE of the bahn service, written by its first part (an
\* id is one opaque string to @state: it is upper-cased and looked up).
IdBahnUp == <<"B", "A", "H", "N">>
IdPutUp == <<"P", "U", "T">>

\* The action ids and the action data callers pass to callAction.
CalledIds ==
    { IdInc, IdIncUp, <<"I", "n", "c">>, IdSetUp, IdDelUp, <<"n", "o", "p", "e">> }
CalledData ==
    { [type |-> "number", val |-> 1], [type |-> "string", val |-> 0] }

----------------------------------------------------------------------------
(* object-diff *)

\* diff(a, b): the keys of b whose value is not the one a has, with b's value
Diff(a, b) ==
    [k \in {j \in DOMAIN b : ~(j \in DOMAIN a /\ a[j] = b[j])} |-> b[k]]

----------------------------------------------------------------------------
(* eventemitter2, { wildcard: true, delimiter: ':' } *)

\* A listener tree entry matches an emitted type when both have the same
\* number of segments and every segment is equal or '*' on either side.
Matches(event, type) ==
    /\ Len(event) = Len(type)
    /\ \A i \in DOMAIN event :
          event[i] = type[i] \/ event[i] = Star \/ type[i] = Star

\* The callbacks.  A relay is the closure a socket's `subscribe` handler
\* creates (one per socket, onAuthentication run and event); an observer is
\* a callback of an internal module, which reads getState(); a thrower is
\* a callback of an internal module that throws when it is called; a
\* dispatcher is a callback of an internal module that calls callAction.
Relay(c, inst, event) == [kind |-> "relay", conn |-> c, inst |-> inst, event |-> event]
Observer(n) == [kind |-> "observer", conn |-> 0, inst |-> n, event |-> <<>>]
Thrower(n) == [kind |-> "thrower", conn |-> 0, inst |-> n, event |-> <<>>]
Dispatcher(n) == [kind |-> "dispatcher", conn |-> 0, inst |-> n, event |-> <<>>]

\* The callAction each dispatcher makes when it is called.
DispatcherCalls ==
    << [action |-> <<"s", "e", "t">>,
        data |-> [type |-> "number", val |-> 1, ref |-> 0]] >>

\* The store as the functions of @state see it, with the record of what a
\* call did: pubs are the emitter.emit calls, out the callback invocations,
\* commits the assignments of the state (by which action), thrown whether
\* an exception is propagating out of the call.
World ==
    [state |-> state, all |-> all, tree |-> tree, pubs |-> <<>>, out |-> <<>>,
     commits |-> <<>>, thrown |-> FALSE]
Fresh(w) == [w EXCEPT !.pubs = <<>>, !.out = <<>>, !.commits = <<>>]

\* getState()
GetState(w) == w.state

\* One callback invocation: what it was called for, with which arguments
\* (an onAny listener gets the event type and the data, a listener of a
\* type the data only) and what getState() returns when it is called.
Invoke(w, fn, type, data, any) ==
    [fn |-> fn, type |-> type, data |-> data, view |-> GetState(w),
     args |-> IF any THEN <<"event", "data">> ELSE <<"data">>]

RECURSIVE CallAction(_, _, _)

\* What the callback does when it runs: a thrower throws, a dispatcher
\* calls callAction (an exception of that call is its own), the others
\* leave the store alone.
RunCallback(w, fn) ==
    CASE fn.kind = "thrower" -> [w EXCEPT !.thrown = TRUE]
      [] fn.kind = "dispatcher" ->
            CallAction(w, DispatcherCalls[fn.inst].action,
                       DispatcherCalls[fn.inst].data).w
      [] OTHER -> w

\* The loop of emit over the listeners: each is called in turn, to its
\* end, before the next; an exception ends the loop (nothing catches it).
RECURSIVE InvokeEach(_, _, _, _)
InvokeEach(w, listeners, type, data) ==
    IF listeners = <<>> \/ w.thrown THEN w
    ELSE InvokeEach(
            RunCallback(
               [w EXCEPT !.out = Append(@, Invoke(w, Head(listeners).fn, type,
                                                  data, Head(listeners).any))],
               Head(listeners).fn),
            Tail(listeners), type, data)

\* emitter.emit(type, data): the onAny listeners first, then the listeners
\* of the matching tree entries; all synchronously.  An exception of a
\* listener ends the emit and propagates to the caller; the statements
\* after a throw are not run.
Emit(w, type, data) ==
    IF w.thrown THEN w
    ELSE
    LET matching == SelectSeq(w.tree, LAMBDA l : Matches(l.event, type))
        listeners == [i \in DOMAIN w.all |-> [fn |-> w.all[i], any |-> TRUE]]
                       \o [i \in DOMAIN matching |->
                              [fn |-> matching[i].fn, any |-> FALSE]]
    IN  InvokeEach([w EXCEPT !.pubs = Append(@, [type |-> type, data |-> data])],
                   listeners, type, data)

RECURSIVE EmitEach(_, _, _)
\* Object.keys(stateDiff).forEach(changedKey => emitter.emit(`update:${changedKey}`, ...))
EmitEach(w, keys, data) ==
    IF keys = <<>> THEN w
    ELSE EmitEach(Emit(w, <<SegUpdate, Head(keys)>>, data), Tail(keys), data)

\* The payloads of the three kinds of events callAction emits.
\* (`has` names the properties the payload object has; the others are fillers.)
NoData == [type |-> "undefined", val |-> 0]
KeyPayload(stateDiff) ==
    [has |-> {"state"}, state |-> stateDiff, action |-> <<>>,
     actionData |-> NoData, diff |-> <<>>]
UpdatePayload(stateDiff, actionKey) ==
    [has |-> {"state", "action", "diff"}, state |-> stateDiff,
     action |-> actionKey, actionData |-> NoData, diff |-> ObjectKeys(stateDiff)]
ActionPayload(newState, actionKey, data, stateDiff) ==
    [has |-> {"state", "action", "actionData", "diff"}, state |-> newState,
     action |-> actionKey, actionData |-> data, diff |-> ObjectKeys(stateDiff)]

\* registerReducer(action, reducer, validate)
RegisterReducer(registry, action, desc) ==
    [k \in (DOMAIN registry) \cup {action} |->
        IF k = action THEN desc ELSE registry[k]]

\* (Mutation of Commit: the new state merged into the old one.)
CommitMerged(oldState, newState) ==
    ObjectAssign(ObjectAssign(EmptyObject, oldState), newState)

\* state = Object.assign({}, newState)
Commit(oldState, newState) == ObjectAssign(EmptyObject, newState)

\* (Mutation of RunAction: the state set after the events are emitted.)
RunActionLateCommit(w, actionKey, action, data) ==
    LET oldState == w.state
        newState == Reduce(action.reducer, oldState, data)
        stateDiff == Diff(oldState, newState)
        w2 == EmitEach(w, ObjectKeys(stateDiff), KeyPayload(stateDiff))
        w3 == Emit(w2, <<SegUpdate>>, UpdatePayload(stateDiff, actionKey))
        w4 == Emit(w3, <<SegAction, actionKey>>,
                   ActionPayload(newState, actionKey, data, stateDiff))
    IN  [w |-> [w4 EXCEPT !.state = Commit(oldState, newState)],
         found |-> TRUE, valid |-> TRUE, reduced |-> TRUE]

\* callAction past its checks: run the reducer on the old state, set the
\* state, diff, emit update:<key> for each changed key, update, action:<KEY>.
RunAction(w, actionKey, action, data) ==
    LET oldState == w.state
        newState == Reduce(action.reducer, oldState, data)
        w1 == [w EXCEPT !.state = Commit(oldState, newState),
                        !.commits = Append(@, actionKey)]
        stateDiff == Diff(oldState, newState)
        w2 == EmitEach(w1, ObjectKeys(stateDiff), KeyPayload(stateDiff))
        w3 == Emit(w2, <<SegUpdate>>, UpdatePayload(stateDiff, actionKey))
        w4 == Emit(w3, <<SegAction, actionKey>>,
                   ActionPayload(newState, actionKey, data, stateDiff))
    IN  [w |-> w4, found |-> TRUE, valid |-> TRUE, reduced |-> TRUE]

\* (Mutation of UnknownAction: the action event is emitted all the same.)
UnknownActionPublishes(w, actionKey) ==
    [w |-> Emit(w, <<SegAction, actionKey>>, KeyPayload(EmptyObject)),
     found |-> FALSE, valid |-> FALSE, reduced |-> FALSE]

\* callAction, action not found: logger.error and return
UnknownAction(w, actionKey) ==
    [w |-> w, found |-> FALSE, valid |-> FALSE, reduced |-> FALSE]

\* (Mutation of InvalidData: the return is missing.)
InvalidDataContinues(w, actionKey, action, data) ==
    [RunAction(w, actionKey, action, data) EXCEPT !.valid = FALSE]

\* callAction, data invalid: logger.error and return
InvalidData(w, actionKey, action, data) ==
    [w |-> w, found |-> TRUE, valid |-> FALSE, reduced |-> FALSE]

\* callAction, action.validate(data) throws: the exception leaves callAction
ValidatorThrew(w, actionKey, action, data) ==
    [w |-> [w EXCEPT !.thrown = TRUE],
     found |-> TRUE, valid |-> FALSE, reduced |-> FALSE]

\* (Mutation of ReducerThrew: the exception is swallowed, and the state is
\* set and `update` emitted with the result the reducer never returned.)
ReducerThrewSwallowed(w, actionKey, action, data) ==
    [w |-> Emit([w EXCEPT !.state = Commit(w.state, EmptyObject)], <<SegUpdate>>,
                UpdatePayload(EmptyObject, actionKey)),
     found |-> TRUE, valid |-> TRUE, reduced |-> FALSE]

\* callAction, action.reducer(oldState, data) throws: the exception leaves
\* callAction at line 132, before the state is set
ReducerThrew(w, actionKey, action, data) ==
    [w |-> [w EXCEPT !.thrown = TRUE],
     found |-> TRUE, valid |-> TRUE, reduced |-> FALSE]

\* callAction(actionKey, data): the world after the call, and how the call
\* went (action found, data valid, reducer run).
CallAction(w, actionKeyGiven, data) ==
    LET actionKey == ToUpperCase(actionKeyGiven)
    IN  IF ~(actionKey \in DOMAIN actions)
        THEN UnknownAction(w, actionKey)
        ELSE IF ValidateThrows(actions[actionKey].validate, data)
        THEN ValidatorThrew(w, actionKey, actions[actionKey], data)
        ELSE IF ~Validate(actions[actionKey].validate, data)
        THEN InvalidData(w, actionKey, actions[actionKey], data)
        ELSE IF ReduceThrows(actions[actionKey].reducer, w.state, data)
        THEN ReducerThrew(w, actionKey, actions[actionKey], data)
        ELSE RunAction(w, actionKey, actions[actionKey], data)

\* The record kept of one callAction: the call, the snapshot before and
\* after, and what it published.
CallRecord(op, key, data, pre, r) ==
    [op |-> op, key |-> key, data |-> data, pre |-> pre, post |-> GetState(r.w),
     found |-> r.found, valid |-> r.valid, reduced |-> r.reduced,
     pubs |-> r.w.pubs, out |-> r.w.out, commits |-> r.w.commits,
     threw |-> r.w.thrown]

----------------------------------------------------------------------------
(* @state: subscribe and the function it returns *)

RemoveFirstAt(seq, i) == SubSeq(seq, 1, i - 1) \o SubSeq(seq, i + 1, Len(seq))

\* The listeners without the first entry equal to x (the emitter removes by
\* function identity, first occurrence).
RemoveFirst(seq, x) ==
    IF \E i \in DOMAIN seq : seq[i] = x
    THEN RemoveFirstAt(seq, CHOOSE i \in DOMAIN seq :
                              seq[i] = x /\ \A j \in 1..(i - 1) : seq[j] # x)
    ELSE seq

\* subscribe(event, callback): onAny for '*', on(event) otherwise
SubscribeTo(w, event, callback) ==
    IF event = <<Star>>
    THEN [w EXCEPT !.all = Append(@, callback)]
    ELSE [w EXCEPT !.tree = Append(@, [event |-> event, fn |-> callback])]

\* The function subscribe returned, called: offAny / removeListener
UnsubscribeFrom(w, event, callback) ==
    IF event = <<Star>>
    THEN [w EXCEPT !.all = RemoveFirst(@, callback)]
    ELSE [w EXCEPT !.tree = RemoveFirst(@, [event |-> event, fn |-> callback])]

----------------------------------------------------------------------------
(* Steps of the internal modules on @state *)

Observers == {1}
ObservedEvents ==
    { <<Star>>, <<SegUpdate>>, <<SegUpdate, KeyCount>>, <<SegUpdate, KeyFlag>>,
      <<SegAction, IdIncUp>> }
EmittedEvents == { <<SegUpdate>>, <<<<"p", "i", "n", "g">>>> }

NoWire == <<>>
NoCalls == <<>>

\* A domain module registers one of its actions.
Register(action, desc) ==
    /\ ~(action \in DOMAIN actions /\ actions[action] = desc)
    /\ actions' = RegisterReducer(actions, action, desc)
    /\ calls' = NoCalls
    /\ wire' = NoWire
    /\ UNCHANGED <<state, all, tree, handles, heap, held>>
    /\ UNCHANGED sockVars

\* An internal module subscribes one of its callbacks.
Subscribe(event, n) ==
    /\ Len(SelectSeq(all, LAMBDA f : f.kind = "observer"))
         + Len(SelectSeq(tree, LAMBDA l : l.fn.kind = "observer")) < MaxListeners
    /\ LET w == SubscribeTo(World, event, Observer(n))
       IN  /\ all' = w.all
           /\ tree' = w.tree
    /\ calls' = NoCalls
    /\ wire' = NoWire
    /\ UNCHANGED <<heap, held, handles, actions, state>>
    /\ UNCHANGED sockVars

\* An internal module calls the function an earlier subscribe returned.
Unsubscribe(event, n) ==
    /\ \/ event = <<Star>> /\ \E i \in DOMAIN all : all[i] = Observer(n)
       \/ \E i \in DOMAIN tree : tree[i] = [event |-> event, fn |-> Observer(n)]
    /\ LET w == UnsubscribeFrom(World, event, Observer(n))
       IN  /\ all' = w.all
           /\ tree' = w.tree
    /\ calls' = NoCalls
    /\ wire' = NoWire
    /\ UNCHANGED <<heap, held, handles, actions, state>>
    /\ UNCHANGED sockVars


\* An internal module subscribes a callback and keeps the function
\* subscribe returns.
SubscribeKeep(event, callback) ==
    /\ Len(handles) < MaxHandles
    /\ \E w \in {SubscribeTo(World, event, callback)} :
           /\ all' = w.all
           /\ tree' = w.tree
    /\ handles' = Append(handles, [event |-> event, fn |-> callback, called |-> 0])
    /\ calls' = NoCalls
    /\ wire' = NoWire
    /\ UNCHANGED <<actions, state, heap, held>>
    /\ UNCHANGED sockVars

\* An internal module calls a function subscribe returned, for the first
\* time or again.
CallUnsubscribe(h) ==
    /\ h \in DOMAIN handles
    /\ handles[h].called < MaxHandleCalls
    /\ \E w \in {UnsubscribeFrom(World, handles[h].event, handles[h].fn)} :
           /\ all' = w.all
           /\ tree' = w.tree
    /\ handles' = [handles EXCEPT ![h].called = @ + 1]
    /\ calls' = NoCalls
    /\ wire' = NoWire
    /\ UNCHANGED <<actions, state, heap, held>>
    /\ UNCHANGED sockVars

----------------------------------------------------------------------------
(* Objects of a dispatch that internal modules keep *)

\* The `state` of the payload the call emitted under type t.
PayloadState(k, t) ==
    LET ps == SelectSeq(k.pubs, LAMBDA p : p.type = t)
    IN  ps[1].data.state

\* The objects of a callAction that its caller, the reducer's module and
\* the subscribers hold afterwards: oldState (the snapshot before, line
\* 131), newState (what the reducer returned, also the `state` of the
\* action:<KEY> payload, line 158) and stateDiff (the `state` of the
\* update payloads, lines 146 and 153).  None of them is the object
\* assigned to `state`, which Object.assign({}, newState) makes anew.
HeldObject(k, origin) ==
    CASE origin = "oldState" -> k.pre
      [] origin = "stateDiff" -> PayloadState(k, <<SegUpdate>>)
      [] origin = "newState" -> PayloadState(k, <<SegAction, ToUpperCase(k.key)>>)

Origins == {"oldState", "newState", "stateDiff"}
Written == [routes |-> "x"]

\* A module sets a property of an object it holds from the last
\* callAction (obj.flag = 9), or a property of the value that object has
\* under `bahn` (obj.bahn.routes = 'x'): an assignment to that object, which
\* every reference to it sees.
WriteThrough(i, origin, nested) ==
    /\ i \in DOMAIN calls
    /\ calls[i].op = "callAction"
    /\ calls[i].reduced
    /\ ~calls[i].threw
    /\ \E obj \in {HeldObject(calls[i], origin)} :
          IF nested
          THEN /\ KeyBahn \in DOMAIN obj
               /\ heap[obj[KeyBahn]] # Written
               /\ heap' = [heap EXCEPT ![obj[KeyBahn]] = Written]
               /\ held' = <<[origin |-> origin, obj |-> obj]>>
          ELSE /\ heap' = heap
               /\ held' = <<[origin |-> origin,
                             obj |-> ObjectAssign(obj, (KeyFlag :> 9))]>>
    /\ calls' = NoCalls
    /\ wire' = NoWire
    /\ UNCHANGED <<actions, state, all, tree, handles>>
    /\ UNCHANGED sockVars

----------------------------------------------------------------------------
(* @socket: what reaches the clients *)

\* The Auth Gate phase of a socket.
Phase(c) ==
    IF conn[c] = "closed" THEN "CLOSED"
    ELSE IF authenticated[c] THEN "AUTHENTICATED" ELSE "PENDING"

\* One socket.emit / client.emit: which message ("initial-state",
\* "authenticated", "unauthorized", or "relay" for a relayed bus event), for
\* `unauthorized` its type, for a relay the event name it is sent under and
\* the bus topic, and the phase of the socket when the emit is made.
WireMsg(c, kind, arg, chan, type) ==
    [conn |-> c, kind |-> kind, arg |-> arg, chan |-> chan, type |-> type,
     phase |-> Phase(c)]

\* relayAllEvents / relaySingleEvent: the client.emit a relay makes when the
\* emitter invokes it: on `all-events` for '*', else on the subscribed name.
RelayEmit(inv) ==
    WireMsg(inv.fn.conn, "relay", "",
            IF inv.fn.event = <<Star>> THEN <<AllEvents>> ELSE inv.fn.event,
            inv.type)

\* The client.emits made by the relays among the callbacks invoked.
Relayed(out) ==
    LET relays == SelectSeq(out, LAMBDA inv : inv.fn.kind = "relay")
    IN  [i \in DOMAIN relays |-> RelayEmit(relays[i])]

RECURSIVE Flatten(_)
Flatten(seqs) == IF seqs = <<>> THEN <<>> ELSE Head(seqs) \o Flatten(Tail(seqs))

\* History: the sockets that were sent a relayed event.
NoteRelays(h, w) ==
    [c \in Conns |->
        IF \E i \in DOMAIN w : w[i].kind = "relay" /\ w[i].conn = c
        THEN [h[c] EXCEPT !.relayed = TRUE] ELSE h[c]]

----------------------------------------------------------------------------
(* Steps that publish *)

\* An internal module calls callAction(actionKey, data).  (r is the one
\* call the step makes, sent the client.emits its relays made.)
Dispatch(actionKey, data) ==
    \E r \in {CallAction(World, actionKey, data)} :
    \E cs \in {<<CallRecord("callAction", actionKey, data, state, r)>>} :
    \E sent \in {Relayed(r.w.out)} :
        /\ KeyCount \in DOMAIN r.w.state => r.w.state[KeyCount] <= MaxCount
        /\ state' = r.w.state
        /\ all' = r.w.all
        /\ tree' = r.w.tree
        /\ calls' = cs
        /\ wire' = sent
        /\ hist' = NoteRelays(hist, sent)
        /\ UNCHANGED <<heap, held, handles, actions, nsps, conn, authenticated, timer, acks, subs, closedBy>>

\* (Mutation of EmitEvent: the store takes the `state` of the payload it
\* is asked to emit as its new snapshot.)
EmitEventStores(event) ==
    \E p \in {KeyPayload(EmptyObject)} :
    \E w \in {[Emit(World, event, p) EXCEPT !.state = p.state]} :
    \E r \in {[w |-> w, found |-> FALSE, valid |-> FALSE, reduced |-> FALSE]} :
    \E sent \in {Relayed(w.out)} :
        /\ state' = w.state
        /\ all' = w.all
        /\ tree' = w.tree
        /\ calls' = <<CallRecord("emitEvent", event, NoData, state, r)>>
        /\ wire' = sent
        /\ hist' = NoteRelays(hist, sent)
        /\ UNCHANGED <<heap, held, handles, actions, nsps, conn, authenticated, timer, acks, subs, closedBy>>

\* An internal module calls emitEvent(event, data).
EmitEvent(event) ==
    \E w \in {Emit(World, event, KeyPayload(EmptyObject))} :
    \E r \in {[w |-> w, found |-> FALSE, valid |-> FALSE, reduced |-> FALSE]} :
    \E sent \in {Relayed(w.out)} :
        /\ state' = w.state
        /\ all' = w.all
        /\ tree' = w.tree
        /\ calls' = <<CallRecord("emitEvent", event, NoData, state, r)>>
        /\ wire' = sent
        /\ hist' = NoteRelays(hist, sent)
        /\ UNCHANGED <<heap, held, handles, actions, nsps, conn, authenticated, timer, acks, subs, closedBy>>


----------------------------------------------------------------------------
(* socketAuth and the handlers @socket installs in onAuthentication *)

Tokens == {"good", "bad"}

\* The namespaces of the server when @socket calls socketAuth, right after
\* socketIO(http) made it: the default one, which every client joins.
Namespaces == {"/"}

\* socket.io: a socket joins a namespace: it is put in its `sockets` and
\* its `connected`, then the namespace emits 'connect'; when the socket
\* closes it is taken out of both.
NspAdd(n, c) == [n EXCEPT !.sockets = @ \cup {c}, !.connected = @ \cup {c}]
NspRemove(n, c) == [n EXCEPT !.sockets = @ \ {c}, !.connected = @ \ {c}]

\* (Mutation of ForbidNamespaceConnection: the socket is left in `connected`.)
ForbidNoConnection(n, c, auth) == n

\* forbidNamespaceConnections: the 'connect' handler of a namespace:
\* if (!socket.authenticated) delete namespace.connected[socket.id]
ForbidNamespaceConnection(n, c, auth) ==
    IF ~auth THEN [n EXCEPT !.connected = @ \ {c}] ELSE n

\* restoreNamespaceConnection, for one namespace: if the socket is among
\* namespace.sockets, namespace.connected[socket.id] = socket
RestoreNamespaceConnection(n, c) ==
    IF \E s \in n.sockets : s = c THEN [n EXCEPT !.connected = @ \cup {c}] ELSE n

\* A client joins the namespaces: each takes the socket in and runs its
\* 'connect' handler, before the 'connection' handler of socketAuth sets
\* socket.authenticated (it is undefined in the 'connect' handler).
JoinNamespaces(c) ==
    [ns \in Namespaces |-> ForbidNamespaceConnection(NspAdd(nsps[ns], c), c, FALSE)]

\* jwt.verify(token, secret, {issuer, audience}) returns; otherwise it throws
JwtVerify(token) == token = "good"

\* The events clients ask to subscribe to.
ClientEvents == { <<Star>>, <<SegUpdate>> }

NoHistory ==
    [unauth |-> {}, relayed |-> FALSE, deadline |-> FALSE, ignored |-> {}]

\* History: a message of a client for which the socket has no handler.
NoteIgnored(c, msg) ==
    IF subs[c] = <<>> THEN [hist EXCEPT ![c].ignored = @ \cup {msg}] ELSE hist

\* The `disconnect` handlers: every onAuthentication run unsubscribes what
\* its table holds.
RECURSIVE UnsubscribeAll(_, _, _, _)
UnsubscribeAll(w, c, inst, events) ==
    IF events = {} THEN w
    ELSE LET e == CHOOSE x \in events : TRUE
         IN  UnsubscribeAll(UnsubscribeFrom(w, e, Relay(c, inst, e)),
                            c, inst, events \ {e})

RECURSIVE OnDisconnect(_, _, _)
OnDisconnect(w, c, inst) ==
    IF inst > Len(subs[c]) THEN w
    ELSE OnDisconnect(UnsubscribeAll(w, c, inst, subs[c][inst]), c, inst + 1)

\* (Mutation of Close: the `disconnect` handlers do not unsubscribe.)
CloseKeepsRelays(c, by) ==
    /\ conn' = [conn EXCEPT ![c] = "closed"]
    /\ closedBy' = [closedBy EXCEPT ![c] = by]
    /\ subs' = [subs EXCEPT ![c] = [i \in DOMAIN @ |-> {}]]
    /\ acks' = [acks EXCEPT ![c] = {}]
    /\ nsps' = [ns \in Namespaces |-> NspRemove(nsps[ns], c)]
    /\ calls' = NoCalls
    /\ wire' = NoWire
    /\ UNCHANGED <<heap, held, handles, actions, state, all, tree, authenticated, timer, hist>>

\* The socket closes: its `disconnect` handlers run.
Close(c, by) ==
    \E w \in {OnDisconnect(World, c, 1)} :
        /\ conn' = [conn EXCEPT ![c] = "closed"]
        /\ closedBy' = [closedBy EXCEPT ![c] = by]
        /\ subs' = [subs EXCEPT ![c] = [i \in DOMAIN @ |-> {}]]
        /\ acks' = [acks EXCEPT ![c] = {}]
        /\ all' = w.all
        /\ tree' = w.tree
        /\ nsps' = [ns \in Namespaces |-> NspRemove(nsps[ns], c)]
        /\ calls' = NoCalls
        /\ wire' = NoWire
        /\ UNCHANGED <<heap, held, handles, actions, state, authenticated, timer, hist>>

\* (Mutation of Connection: @socket's handlers installed on connection,
\* not on authentication.)
ConnectionUngated(c) ==
    /\ conn[c] = "none"
    /\ conn' = [conn EXCEPT ![c] = "open"]
    /\ nsps' = JoinNamespaces(c)
    /\ timer' = [timer EXCEPT ![c] = "armed"]
    /\ authenticated' = [authenticated EXCEPT ![c] = FALSE]
    /\ subs' = [subs EXCEPT ![c] = <<{}>>]
    /\ calls' = NoCalls
    /\ wire' = <<WireMsg(c, "initial-state", "", <<>>, <<>>)>>
    /\ UNCHANGED <<acks, closedBy, hist>>
    /\ UNCHANGED storeVars

\* A client connects: the namespaces take the socket in, then
\* socketIO.on('connection'): the timeout is set, the socket is not
\* authenticated, the `authenticate` handler is installed.
Connection(c) ==
    /\ conn[c] = "none"
    /\ conn' = [conn EXCEPT ![c] = "open"]
    /\ nsps' = JoinNamespaces(c)
    /\ timer' = [timer EXCEPT ![c] = "armed"]
    /\ authenticated' = [authenticated EXCEPT ![c] = FALSE]
    /\ calls' = NoCalls
    /\ wire' = NoWire
    /\ UNCHANGED <<acks, subs, closedBy, hist>>
    /\ UNCHANGED storeVars

\* The 15000 ms of the timeout pass.  If it has not been cleared its
\* callback runs: socket.emit('unauthorized', {type: 'TIMEOUT'}, ack).
Timeout(c) ==
    /\ conn[c] # "none"
    /\ ~hist[c].deadline
    /\ IF timer[c] = "armed"
       THEN /\ timer' = [timer EXCEPT ![c] = "fired"]
            /\ wire' = <<WireMsg(c, "unauthorized", "TIMEOUT", <<>>, <<>>)>>
            /\ acks' = [acks EXCEPT ![c] =
                          IF conn[c] = "open" THEN @ \cup {"TIMEOUT"} ELSE @]
            /\ hist' = [hist EXCEPT ![c].deadline = TRUE,
                                    ![c].unauth = @ \cup {"TIMEOUT"}]
       ELSE /\ wire' = NoWire
            /\ hist' = [hist EXCEPT ![c].deadline = TRUE]
            /\ UNCHANGED <<timer, acks>>
    /\ calls' = NoCalls
    /\ UNCHANGED <<nsps, conn, authenticated, subs, closedBy>>
    /\ UNCHANGED storeVars

\* clearTimeout(authTimeoutId)
ClearTimeout(t) == IF t = "armed" THEN "cleared" ELSE t

\* The callback @socket passes to socketAuth, run on a socket: a new
\* subscriptions table, `initial-state` sent, the handlers installed.
\* (`then` is what the caller emits after it; socket.authenticated is
\* already true when it is called.)
OnAuthentication(c, then) ==
    /\ subs' = [subs EXCEPT ![c] = Append(@, {})]
    /\ wire' = << [WireMsg(c, "initial-state", "", <<>>, <<>>)
                      EXCEPT !.phase = "AUTHENTICATED"] >> \o then

\* socket.on('authenticate', ({ token }) => ...), while the socket has had
\* fewer than `setups` successful ones.
AuthenticateUpTo(c, token, setups) ==
    /\ conn[c] = "open"
    /\ timer' = [timer EXCEPT ![c] = ClearTimeout(@)]
    /\ IF JwtVerify(token)
       THEN /\ Len(subs[c]) < setups
            /\ authenticated' = [authenticated EXCEPT ![c] = TRUE]
            /\ OnAuthentication(c,
                 << [WireMsg(c, "authenticated", "", <<>>, <<>>)
                        EXCEPT !.phase = "AUTHENTICATED"] >>)
            /\ nsps' = [ns \in Namespaces |-> RestoreNamespaceConnection(nsps[ns], c)]
            /\ UNCHANGED <<acks, hist>>
       ELSE /\ wire' = <<WireMsg(c, "unauthorized", "INVALID_TOKEN", <<>>, <<>>)>>
            /\ acks' = [acks EXCEPT ![c] = @ \cup {"INVALID_TOKEN"}]
            /\ hist' = [hist EXCEPT ![c].unauth = @ \cup {"INVALID_TOKEN"}]
            /\ UNCHANGED <<nsps, authenticated, subs>>
    /\ calls' = NoCalls
    /\ UNCHANGED <<conn, closedBy>>
    /\ UNCHANGED storeVars

Authenticate(c, token) == AuthenticateUpTo(c, token, MaxSetups)

\* The same handler on a socket whose client authenticates again.
Reauthenticate(c, token) == AuthenticateUpTo(c, token, MaxResetups)

\* The client acknowledges an `unauthorized`: () => socket.disconnect()
Ack(c, type) ==
    /\ conn[c] = "open"
    /\ type \in acks[c]
    /\ Close(c, "auth")

\* The transport of the socket closes (the client leaves).
Disconnect(c) ==
    /\ conn[c] = "open"
    /\ Close(c, "client")


\* client.on('subscribe', ({ event }) => ...), run by every onAuthentication
\* run of the socket in turn
RECURSIVE OnSubscribe(_, _, _, _)
OnSubscribe(w, c, event, inst) ==
    IF inst > Len(subs[c]) THEN w
    ELSE OnSubscribe(IF event \in subs[c][inst] THEN w
                     ELSE SubscribeTo(w, event, Relay(c, inst, event)),
                     c, event, inst + 1)

ClientSubscribe(c, event) ==
    /\ conn[c] = "open"
    /\ \E w \in {OnSubscribe(World, c, event, 1)} :
           /\ all' = w.all
           /\ tree' = w.tree
    /\ subs' = [subs EXCEPT ![c] = [i \in DOMAIN @ |-> @[i] \cup {event}]]
    /\ hist' = NoteIgnored(c, "subscribe")
    /\ calls' = NoCalls
    /\ wire' = NoWire
    /\ UNCHANGED <<heap, held, handles, actions, state, nsps, conn, authenticated, timer, acks, closedBy>>

\* client.on('unsubscribe', ({ event }) => ...)
RECURSIVE OnUnsubscribe(_, _, _, _)
OnUnsubscribe(w, c, event, inst) ==
    IF inst > Len(subs[c]) THEN w
    ELSE OnUnsubscribe(IF event \in subs[c][inst]
                       THEN UnsubscribeFrom(w, event, Relay(c, inst, event))
                       ELSE w,
                       c, event, inst + 1)

ClientUnsubscribe(c, event) ==
    /\ conn[c] = "open"
    /\ \E i \in DOMAIN subs[c] : event \in subs[c][i]
    /\ \E w \in {OnUnsubscribe(World, c, event, 1)} :
           /\ all' = w.all
           /\ tree' = w.tree
    /\ subs' = [subs EXCEPT ![c] = [i \in DOMAIN @ |-> @[i] \ {event}]]
    /\ calls' = NoCalls
    /\ wire' = NoWire
    /\ UNCHANGED <<heap, held, handles, actions, state, nsps, conn, authenticated, timer, acks, closedBy, hist>>

\* client.on('action', ({ action, data }) => state.callAction(action, data)),
\* run by every onAuthentication run of the socket in turn: the records of
\* the calls made, the last one holding the world they leave.
RECURSIVE OnAction(_, _, _, _, _)
OnAction(w, c, action, data, inst) ==
    IF inst > Len(subs[c]) THEN <<>>
    ELSE LET r == CallAction(Fresh(w), action, data)
         IN  <<[rec |-> CallRecord("callAction", action, data, w.state, r), w |-> r.w]>>
             \o OnAction(r.w, c, action, data, inst + 1)

ClientAction(c, action, data) ==
    /\ conn[c] = "open"
    /\ \E rs \in {OnAction(World, c, action, data, 1)} :
       \E w \in {IF rs = <<>> THEN World ELSE rs[Len(rs)].w} :
       \E sent \in {Flatten([i \in DOMAIN rs |-> Relayed(rs[i].rec.out)])} :
           /\ KeyCount \in DOMAIN w.state => w.state[KeyCount] <= MaxCount
           /\ state' = w.state
           /\ all' = w.all
           /\ tree' = w.tree
           /\ calls' = [i \in DOMAIN rs |-> rs[i].rec]
           /\ wire' = sent
           /\ hist' = NoteRelays(hist, sent)
    /\ UNCHANGED <<heap, held, handles, actions, nsps, conn, authenticated, timer, acks, subs, closedBy>>

----------------------------------------------------------------------------
(* The specifications *)

NoSockets ==
    /\ nsps = [ns \in Namespaces |-> [sockets |-> {}, connected |-> {}]]
    /\ conn = [c \in Conns |-> "none"]
    /\ authenticated = [c \in Conns |-> FALSE]
    /\ timer = [c \in Conns |-> "none"]
    /\ acks = [c \in Conns |-> {}]
    /\ subs = [c \in Conns |-> <<>>]
    /\ closedBy = [c \in Conns |-> "none"]
    /\ hist = [c \in Conns |-> NoHistory]
    /\ calls = NoCalls
    /\ wire = NoWire

\* The state machine as required: no action registered, the initial state,
\* no listener.
StoreInit ==
    /\ actions = EmptyObject
    /\ state = InitialState
    /\ all = <<>>
    /\ tree = <<>>
    /\ handles = <<>>
    /\ heap = Objects
    /\ held = <<>>
    /\ NoSockets

\* The state machine used by the internal modules only.
StoreNext ==
    \/ \E r \in Registrations : Register(r[1], r[2])
    \/ \E e \in ObservedEvents, n \in Observers : Subscribe(e, n)
    \/ \E e \in ObservedEvents, n \in Observers : Unsubscribe(e, n)
    \/ \E a \in CalledIds, d \in CalledData : Dispatch(a, d)
    \/ \E e \in EmittedEvents : EmitEvent(e)

StoreSpec == StoreInit /\ [][StoreNext]_vars

\* The server once started: the domain modules have registered their
\* actions, the socket module listens.
GatewayActions ==
    (IdSetUp :> [reducer |-> "setFlag", validate |-> "isNumber"])
GatewayCalledIds == { <<"s", "e", "t">> }

GatewayInit ==
    /\ actions = GatewayActions
    /\ state = InitialState
    /\ all = <<>>
    /\ tree = <<>>
    /\ handles = <<>>
    /\ heap = Objects
    /\ held = <<>>
    /\ NoSockets

GatewayNext ==
    \/ \E c \in Conns : Connection(c)
    \/ \E c \in Conns : Timeout(c)
    \/ \E c \in Conns, t \in Tokens : Authenticate(c, t)
    \/ \E c \in Conns, t \in {"TIMEOUT", "INVALID_TOKEN"} : Ack(c, t)
    \/ \E c \in Conns : Disconnect(c)
    \/ \E c \in Conns, e \in ClientEvents : ClientSubscribe(c, e)
    \/ \E c \in Conns, e \in ClientEvents : ClientUnsubscribe(c, e)
    \/ \E c \in Conns, a \in GatewayCalledIds, d \in CalledData : ClientAction(c, a, d)
    \/ \E a \in GatewayCalledIds, d \in CalledData : Dispatch(a, d)

GatewaySpec == GatewayInit /\ [][GatewayNext]_vars


\* Timers are run by the event loop: a timeout that is due does run.  No
\* step of a client is ever required to happen.
FairGatewaySpec == GatewaySpec /\ \A c \in Conns : WF_vars(Timeout(c))

\* The authentication gate alone: clients connect, authenticate, acknowledge
\* and leave; no client subscribes or calls an action.
GateNext ==
    \/ \E c \in Conns : Connection(c)
    \/ \E c \in Conns : Timeout(c)
    \/ \E c \in Conns, t \in Tokens : Authenticate(c, t)
    \/ \E c \in Conns, t \in {"TIMEOUT", "INVALID_TOKEN"} : Ack(c, t)
    \/ \E c \in Conns : Disconnect(c)

GateSpec == GatewayInit /\ [][GateNext]_vars

\* The event bus as the internal modules use it: BAHN:UPDATE is registered;
\* modules subscribe callbacks, some of which throw, keep and call the
\* functions subscribe returns, call the action with objects, emit events.
BusActions == (IdBahnUp :> [reducer |-> "update", validate |-> "isObject"])
BusCalledIds == { <<"b", "a", "h", "n">> }
BusData ==
    { [type |-> "object", val |-> Objects[r], ref |-> r] : r \in DOMAIN Objects }
        \cup { [type |-> "string", val |-> [routes |-> ""], ref |-> 0] }
BusEvents == { <<Star>>, <<SegUpdate>>, <<SegUpdate, KeyBahn>> }
BusCallbacks == { Observer(1), Thrower(1) }

BusInit ==
    /\ actions = BusActions
    /\ state = InitialState
    /\ all = <<>>
    /\ tree = <<>>
    /\ handles = <<>>
    /\ heap = Objects
    /\ held = <<>>
    /\ NoSockets

BusNext ==
    \/ \E e \in BusEvents, f \in BusCallbacks : SubscribeKeep(e, f)
    \/ \E h \in 1..MaxHandles : CallUnsubscribe(h)
    \/ \E a \in BusCalledIds, d \in BusData : Dispatch(a, d)
    \/ \E e \in EmittedEvents : EmitEvent(e)

BusSpec == BusInit /\ [][BusNext]_vars

\* One client, which may send `authenticate` again after a successful one.
ReauthNext ==
    \/ Connection(1)
    \/ Timeout(1)
    \/ \E t \in Tokens : Reauthenticate(1, t)
    \/ \E t \in {"TIMEOUT", "INVALID_TOKEN"} : Ack(1, t)
    \/ Disconnect(1)
    \/ \E e \in ClientEvents : ClientSubscribe(1, e)
    \/ \E e \in ClientEvents : ClientUnsubscribe(1, e)
    \/ \E a \in GatewayCalledIds, d \in CalledData : ClientAction(1, a, d)
    \/ \E a \in GatewayCalledIds, d \in CalledData : Dispatch(a, d)

ReauthSpec == GatewayInit /\ [][ReauthNext]_vars

\* The server with one client, which sends every message the gateway
\* handles, and the internal modules at work: a module registers a further
\* action, modules subscribe and unsubscribe callbacks, emit events under
\* the names callAction uses, and call actions.
ServerRegistrations ==
    { r \in Registrations : r[1] = IdDelUp }
ServerCalledIds == GatewayCalledIds \cup { <<"d", "e", "l">> }
ServerEvents == { <<Star>>, <<SegUpdate>> }
ServerEmitted == { <<SegUpdate>>, <<SegAction, IdSetUp>> }

ServerNext ==
    \/ Connection(1)
    \/ \E t \in Tokens : Authenticate(1, t)
    \/ Ack(1, "INVALID_TOKEN")
    \/ Disconnect(1)
    \/ \E e \in ClientEvents : ClientSubscribe(1, e)
    \/ \E e \in ClientEvents : ClientUnsubscribe(1, e)
    \/ \E a \in ServerCalledIds, d \in CalledData : ClientAction(1, a, d)
    \/ \E r \in ServerRegistrations : Register(r[1], r[2])
    \/ \E e \in ServerEvents, n \in Observers : Subscribe(e, n)
    \/ \E e \in ServerEvents, n \in Observers : Unsubscribe(e, n)
    \/ \E a \in ServerCalledIds, d \in CalledData : Dispatch(a, d)
    \/ \E e \in ServerEmitted : EmitEvent(e)

ServerSpec == GatewayInit /\ [][ServerNext]_vars

\* The state machine with actions whose validator or reducer reads a
\* property of the action data, called with and without data.
FaultActions ==
    (IdSetUp :> [reducer |-> "setFlag", validate |-> "hasValue"])
       @@ (IdPutUp :> [reducer |-> "readValue", validate |-> "always"])
FaultCalledIds == { <<"s", "e", "t">>, <<"p", "u", "t">> }
FaultData == { [type |-> "number", val |-> 1], [type |-> "number", val |-> 0], NoData }

FaultInit ==
    /\ actions = FaultActions
    /\ state = InitialState
    /\ all = <<>>
    /\ tree = <<>>
    /\ handles = <<>>
    /\ heap = Objects
    /\ held = <<>>
    /\ NoSockets

FaultNext ==
    \/ \E e \in ObservedEvents, n \in Observers : SubscribeKeep(e, Observer(n))
    \/ \E h \in 1..MaxHandles : CallUnsubscribe(h)
    \/ \E a \in FaultCalledIds, d \in FaultData : Dispatch(a, d)
    \/ \E e \in EmittedEvents : EmitEvent(e)

FaultSpec == FaultInit /\ [][FaultNext]_vars

\* The event bus with a subscriber of update:bahn that calls the action SET
\* when it is called (its own emits do not reach it again), next to
\* subscribers that observe.
ReentrantActions == BusActions @@ GatewayActions
ReentrantCalledIds == BusCalledIds \cup GatewayCalledIds
ReentrantData ==
    { [type |-> "object", val |-> Objects[r], ref |-> r] : r \in {1, 3} }
        \cup { [type |-> "number", val |-> 1, ref |-> 0] }
ReentrantEvents == { <<Star>>, <<SegUpdate>>, <<SegAction, IdBahnUp>> }

ReentrantInit ==
    /\ actions = ReentrantActions
    /\ state = InitialState
    /\ all = <<>>
    /\ tree = <<>>
    /\ handles = <<>>
    /\ heap = Objects
    /\ held = <<>>
    /\ NoSockets

ReentrantNext ==
    \/ SubscribeKeep(<<SegUpdate, KeyBahn>>, Dispatcher(1))
    \/ \E e \in ReentrantEvents : SubscribeKeep(e, Observer(1))
    \/ \E h \in 1..MaxHandles : CallUnsubscribe(h)
    \/ \E a \in ReentrantCalledIds, d \in ReentrantData : Dispatch(a, d)
    \/ \E e \in EmittedEvents : EmitEvent(e)

ReentrantSpec == ReentrantInit /\ [][ReentrantNext]_vars

\* The state machine with modules that keep the objects of a dispatch and
\* write to them afterwards.
AliasNext ==
    \/ \E e \in ServerEvents, n \in Observers : Subscribe(e, n)
    \/ \E e \in ServerEvents, n \in Observers : Unsubscribe(e, n)
    \/ \E a \in ReentrantCalledIds, d \in ReentrantData : Dispatch(a, d)
    \/ \E o \in Origins, n \in BOOLEAN : WriteThrough(1, o, n)

AliasSpec == ReentrantInit /\ [][AliasNext]_vars

----------------------------------------------------------------------------
(* Properties *)

\* The callAction calls of the last step.
ActionCalls == {i \in DOMAIN calls : calls[i].op = "callAction"}

\* The call looks up a registered action / passes the action's validator.
Registered(k) == ToUpperCase(k.key) \in DOMAIN actions
Passes(k) == Validate(actions[ToUpperCase(k.key)].validate, k.data)
Mutator(k) == actions[ToUpperCase(k.key)].reducer

\* The snapshot getState() returns once the calls of the step are over.
StateAfterCalls == calls # <<>> => state = calls[Len(calls)].post

\* C1: after a dispatch whose (normalized) action id is registered and whose
\* payload passes the validator, getState() is exactly what the mutator
\* returned for the snapshot before and the payload: same keys, same values.
C1_StateIsMutatorResult ==
    /\ StateAfterCalls
    /\ \A i \in ActionCalls :
          Registered(calls[i]) /\ Passes(calls[i]) =>
             calls[i].post = Reduce(Mutator(calls[i]), calls[i].pre, calls[i].data)

\* C1 witness: a valid dispatch has removed a key of the snapshot.
C1_Witness ==
    \E i \in ActionCalls :
        /\ Registered(calls[i]) /\ Passes(calls[i])
        /\ DOMAIN calls[i].post # DOMAIN calls[i].pre

\* C2: a dispatch of an id that is not in the registry leaves the snapshot
\* as it was, emits nothing and invokes no subscriber.
C2_UnknownActionHasNoEffect ==
    /\ StateAfterCalls
    /\ \A i \in ActionCalls :
          ~Registered(calls[i]) =>
             /\ calls[i].post = calls[i].pre
             /\ calls[i].pubs = <<>>
             /\ calls[i].out = <<>>

\* C2 witness: an unknown id was dispatched while a '*' subscriber and
\* registered actions existed.
C2_Witness ==
    \E i \in ActionCalls :
        /\ ~Registered(calls[i])
        /\ all # <<>>
        /\ DOMAIN actions # {}

\* C3: a dispatch of a registered action whose validator rejects the payload
\* leaves the snapshot as it was, does not run the mutator, emits nothing.
C3_InvalidDataHasNoEffect ==
    /\ StateAfterCalls
    /\ \A i \in ActionCalls :
          Registered(calls[i]) /\ ~Passes(calls[i]) =>
             /\ calls[i].post = calls[i].pre
             /\ ~calls[i].reduced
             /\ calls[i].pubs = <<>>
             /\ calls[i].out = <<>>

\* C3 witness: a registered action was dispatched with a payload its
\* validator rejects, while a '*' subscriber existed.
C3_Witness ==
    \E i \in ActionCalls :
        /\ Registered(calls[i]) /\ ~Passes(calls[i])
        /\ all # <<>>

\* The events a successful dispatch has to emit after the update:<key> ones.
TopicsOf(k) == [j \in DOMAIN k.pubs |-> k.pubs[j].type]
ChangedKeys(k) == DOMAIN Diff(k.pre, Reduce(Mutator(k), k.pre, k.data))

\* C4: a successful dispatch emits one update:<key> per key of the diff,
\* then one update, then one action:<ID>, and every subscriber invoked by
\* these emits reads the new snapshot from getState().
C4_PublishOrderAfterCommit ==
    \A i \in ActionCalls :
        Registered(calls[i]) /\ Passes(calls[i]) =>
           LET k == calls[i]
               n == Cardinality(ChangedKeys(k))
               t == TopicsOf(k)
           IN  /\ Len(t) = n + 2
               /\ \A j \in 1..n : Len(t[j]) = 2 /\ t[j][1] = SegUpdate
               /\ {t[j][2] : j \in 1..n} = ChangedKeys(k)
               /\ t[n + 1] = <<SegUpdate>>
               /\ t[n + 2] = <<SegAction, ToUpperCase(k.key)>>
               /\ \A j \in DOMAIN k.out :
                     k.out[j].view = Reduce(Mutator(k), k.pre, k.data)

\* C4 witness: a dispatch that changed a key was seen by a '*' subscriber
\* three times: update:<key>, update, action:<ID>.
C4_Witness ==
    \E i \in ActionCalls :
        /\ Registered(calls[i]) /\ Passes(calls[i])
        /\ calls[i].pre # calls[i].post
        /\ Len(calls[i].out) = 3
        /\ calls[i].out[1].type = <<SegUpdate, KeyCount>>
        /\ calls[i].out[3].type = <<SegAction, IdIncUp>>

\* C5: no bus event is relayed to a socket whose Auth Gate is PENDING: no
\* relay emit is made to such a socket, and a PENDING socket has received
\* no relayed event so far.
C5_NoRelayWhilePending ==
    /\ \A i \in DOMAIN wire : wire[i].kind = "relay" => wire[i].phase # "PENDING"
    /\ \A c \in Conns : Phase(c) = "PENDING" => ~hist[c].relayed

\* C5 witness: a published event is relayed to an authenticated socket
\* while another socket, PENDING, has sent a subscribe message and an
\* invalid token.
C5_Witness ==
    \E c \in Conns :
        /\ Phase(c) = "PENDING"
        /\ "subscribe" \in hist[c].ignored
        /\ "INVALID_TOKEN" \in hist[c].unauth
        /\ \E i \in DOMAIN calls : calls[i].pubs # <<>>
        /\ \E i \in DOMAIN wire : wire[i].kind = "relay" /\ wire[i].conn # c

\* C6: a socket that is open and not authenticated once its deadline has
\* passed has been sent `unauthorized` TIMEOUT, and no relayed event.
C6_TimeoutSentToUnauthenticated ==
    \A c \in Conns :
        conn[c] = "open" /\ hist[c].deadline /\ ~authenticated[c] =>
            /\ "TIMEOUT" \in hist[c].unauth
            /\ ~hist[c].relayed

\* C7: a socket that presented an invalid credential (and was sent
\* `unauthorized` INVALID_TOKEN) is closed, whatever the client does next.
C7_InvalidTokenCloses ==
    \A c \in Conns :
        ("INVALID_TOKEN" \in hist[c].unauth) ~> (conn[c] = "closed")

\* C8: the Auth Gate makes at most one terminal transition: no socket is
\* both authenticated and closed by the auth logic (the disconnect of an
\* `unauthorized` acknowledgement).
C8_OneTerminalTransition ==
    \A c \in Conns : ~(authenticated[c] /\ closedBy[c] = "auth")

\* C9: the auth timeout fires (emits `unauthorized` TIMEOUT) only on a
\* socket that is still PENDING, never after it was authenticated or closed.
C9_TimeoutOnlyWhilePending ==
    \A i \in DOMAIN wire :
        wire[i].kind = "unauthorized" /\ wire[i].arg = "TIMEOUT" =>
            wire[i].phase = "PENDING"

\* C10: action ids are case-normalized on both sides: a dispatch of an id
\* that was registered in any letter case finds the action, whatever the
\* case it is dispatched in, and then emits action:<UPPERCASED ID>.
C10_CaseInsensitiveLookup ==
    \A i \in ActionCalls :
        (\E a \in DOMAIN actions : ToUpperCase(a) = ToUpperCase(calls[i].key)) =>
            /\ calls[i].found
            /\ calls[i].valid =>
                  calls[i].pubs[Len(calls[i].pubs)].type
                     = <<SegAction, ToUpperCase(calls[i].key)>>

\* Value-equality of two values of a snapshot key: an object is compared by
\* what it holds (deep equality), not by reference.
SameValue(key, x, y) == IF key = KeyBahn THEN Objects[x] = Objects[y] ELSE x = y

\* The diff a dispatch computed: the `state` of the `update` event it emitted.
ComputedDiff(k) ==
    LET j == CHOOSE j \in DOMAIN k.pubs : k.pubs[j].type = <<SegUpdate>>
    IN  k.pubs[j].data.state

\* C16: the diff computed by a dispatch has exactly the top-level keys,
\* among those of either snapshot, whose values differ between the old and
\* the new snapshot (a key removed in the new one included), each key of the
\* new snapshot mapped to its new value.
C16_DiffIsExactlyTheChangedKeys ==
    \A i \in ActionCalls :
        calls[i].reduced /\ (\E j \in DOMAIN calls[i].pubs :
                                calls[i].pubs[j].type = <<SegUpdate>>) =>
           LET old == calls[i].pre
               new == Reduce(Mutator(calls[i]), calls[i].pre, calls[i].data)
               d == ComputedDiff(calls[i])
           IN  /\ DOMAIN d =
                    {k \in (DOMAIN old) \cup (DOMAIN new) :
                        ~(k \in DOMAIN old /\ k \in DOMAIN new
                             /\ SameValue(k, old[k], new[k]))}
               /\ \A k \in (DOMAIN d) \cap (DOMAIN new) : d[k] = new[k]

\* The relays of socket c registered on the emitter.
RelaysOf(c) ==
    Len(SelectSeq(all, LAMBDA f : f.kind = "relay" /\ f.conn = c))
      + Len(SelectSeq(tree, LAMBDA l : l.fn.kind = "relay" /\ l.fn.conn = c))

\* C12: once a socket is closed none of its relays is registered on the
\* emitter, and no publish is relayed to a closed socket.
C12_ClosedSocketHasNoRelay ==
    /\ \A c \in Conns : conn[c] = "closed" => RelaysOf(c) = 0
    /\ \A i \in DOMAIN wire : wire[i].kind = "relay" => wire[i].phase # "CLOSED"

\* C12 witness: an event is published, and relayed to another socket, after
\* a socket that had been relayed events was closed.
C12_Witness ==
    \E c \in Conns :
        /\ conn[c] = "closed"
        /\ hist[c].relayed
        /\ \E i \in DOMAIN calls : calls[i].pubs # <<>>
        /\ \E i \in DOMAIN wire : wire[i].kind = "relay" /\ wire[i].conn # c

\* C18: when a socket connects it is sent `initial-state` at once, while it
\* is still PENDING.
C18_InitialStateOnConnect ==
    [][\A c \in Conns :
          conn[c] = "none" /\ conn'[c] = "open" =>
             \E i \in DOMAIN wire' :
                 /\ wire'[i].kind = "initial-state"
                 /\ wire'[i].conn = c
                 /\ wire'[i].phase = "PENDING"]_vars

\* C19: every `action` message {action, data} a socket receives is
\* forwarded to callAction(action, data), whatever the phase of the socket.
C19_ActionAlwaysForwarded ==
    [][\A c \in Conns, a \in GatewayCalledIds, d \in CalledData :
          ClientAction(c, a, d) =>
             \E i \in DOMAIN calls' :
                 /\ calls'[i].op = "callAction"
                 /\ calls'[i].key = a
                 /\ calls'[i].data = d]_vars

\* C20: a subscription asked for while PENDING is retained: when the socket
\* becomes AUTHENTICATED a relay of it is registered on the emitter (so that
\* the publishes that follow are relayed to it), and nothing is relayed to
\* it before.
C20_PendingSubscriptionRetained ==
    [][\A c \in Conns :
          /\ Phase(c) = "PENDING" => \A i \in DOMAIN wire :
                                        ~(wire[i].kind = "relay" /\ wire[i].conn = c)
          /\ (/\ Phase(c) = "PENDING"
              /\ "subscribe" \in hist[c].ignored
              /\ Phase(c)' = "AUTHENTICATED") => RelaysOf(c)' > 0]_vars

\* The relays of socket c registered on the emitter for event e.
RelaysFor(c, e) ==
    Len(SelectSeq(all, LAMBDA f : f.kind = "relay" /\ f.conn = c /\ f.event = e))
      + Len(SelectSeq(tree, LAMBDA l : l.fn.kind = "relay" /\ l.fn.conn = c
                                          /\ l.fn.event = e))

\* The emits of type t made in the last step, and the relays of them sent
\* to socket c under the event name chan.
Publishes(t) ==
    Len(SelectSeq(Flatten([i \in DOMAIN calls |-> calls[i].pubs]),
                  LAMBDA p : p.type = t))
Deliveries(c, chan, t) ==
    Len(SelectSeq(wire, LAMBDA m : m.kind = "relay" /\ m.conn = c
                                      /\ m.chan = chan /\ m.type = t))

\* C11: for every socket and event there is at most one relay registered on
\* the emitter, exactly one while the socket is subscribed to the event, and
\* every emit is relayed to the socket at most once per event subscribed.
C11_OneRelayPerSocketAndEvent ==
    /\ \A c \in Conns, e \in ClientEvents :
          RelaysFor(c, e) =
             IF \E inst \in DOMAIN subs[c] : e \in subs[c][inst] THEN 1 ELSE 0
    /\ \A i \in DOMAIN wire :
          wire[i].kind = "relay" =>
             Deliveries(wire[i].conn, wire[i].chan, wire[i].type)
                <= Publishes(wire[i].type)

\* The listeners registered for an emit of type t, and the invocations a
\* call made for its emit of type t.
ListenersOf(t) == Len(all) + Len(SelectSeq(tree, LAMBDA l : Matches(l.event, t)))
OutFor(k, t) == SelectSeq(k.out, LAMBDA inv : inv.type = t)

\* The events a successful dispatch emits, in order.
ExpectedTopics(k) ==
    LET keys == SelectSeq(KeyOrder, LAMBDA key : key \in ChangedKeys(k))
    IN  [j \in DOMAIN keys |-> <<SegUpdate, keys[j]>>]
          \o << <<SegUpdate>>, <<SegAction, ToUpperCase(k.key)>> >>

\* C13: when a subscriber throws during an emit, every listener of that
\* emit is still invoked, and a dispatch still makes all its emits and keeps
\* the snapshot it committed.
C13_ThrowingSubscriberIsIsolated ==
    \A i \in DOMAIN calls :
        calls[i].threw =>
           /\ \A j \in DOMAIN calls[i].pubs :
                 Len(OutFor(calls[i], calls[i].pubs[j].type))
                    = ListenersOf(calls[i].pubs[j].type)
           /\ calls[i].op = "callAction" =>
                 /\ TopicsOf(calls[i]) = ExpectedTopics(calls[i])
                 /\ calls[i].post
                      = Reduce(Mutator(calls[i]), calls[i].pre, calls[i].data)
                 /\ state = calls[i].post

\* The registrations of callback f for event e on the emitter.
Active(e, f) ==
    IF e = <<Star>>
    THEN Len(SelectSeq(all, LAMBDA g : g = f))
    ELSE Len(SelectSeq(tree, LAMBDA l : l = [event |-> e, fn |-> f]))

\* C14: the function subscribe returned removes the registration of its own
\* subscribe call and nothing else, however often it is called: for every
\* event and callback, the registrations on the emitter are those of the
\* subscribe calls whose returned function has not been called.
C14_UnsubscribeRemovesItsOwnRegistration ==
    \A e \in BusEvents, f \in BusCallbacks :
        Active(e, f) =
           Cardinality({h \in DOMAIN handles :
                           /\ handles[h].event = e
                           /\ handles[h].fn = f
                           /\ handles[h].called = 0})

\* The subscribe calls, in the order they were made, whose registration is
\* active and matches an emit of type t.
SubscribedTo(t) ==
    SelectSeq(handles, LAMBDA h : /\ h.called = 0
                                  /\ \/ h.event = <<Star>>
                                     \/ Matches(h.event, t))

\* C15: an emit invokes the subscribers that match its type in the order in
\* which they subscribed, `*` subscribers and subscribers of a type alike; a
\* `*` subscriber is called with (type, data), the others with (data).
C15_InvokedInRegistrationOrder ==
    \A i \in DOMAIN calls :
        ~calls[i].threw =>
           \A j \in DOMAIN calls[i].pubs :
              LET t == calls[i].pubs[j].type
                  invoked == OutFor(calls[i], t)
                  expected == SubscribedTo(t)
              IN  [n \in DOMAIN invoked |->
                      [fn |-> invoked[n].fn, args |-> invoked[n].args]]
                  = [n \in DOMAIN expected |->
                      [fn |-> expected[n].fn,
                       args |-> IF expected[n].event = <<Star>>
                                THEN <<"event", "data">> ELSE <<"data">>]]

\* Two snapshots with the same keys and value-equal values.
StructurallyEqual(a, b) ==
    /\ DOMAIN a = DOMAIN b
    /\ \A key \in DOMAIN a : SameValue(key, a[key], b[key])

\* C17: a valid dispatch whose mutator returns a snapshot structurally equal
\* to the current one emits no update:<key>, and emits one `update` and one
\* action:<ID>, each with an empty diff.
C17_EqualSnapshotEmitsNoKeyUpdate ==
    \A i \in ActionCalls :
        /\ calls[i].reduced
        /\ ~calls[i].threw
        /\ StructurallyEqual(calls[i].pre,
               Reduce(Mutator(calls[i]), calls[i].pre, calls[i].data))
        => /\ TopicsOf(calls[i])
                = << <<SegUpdate>>, <<SegAction, ToUpperCase(calls[i].key)>> >>
           /\ \A j \in DOMAIN calls[i].pubs :
                 calls[i].pubs[j].data.diff = <<>>
           /\ ComputedDiff(calls[i]) = EmptyObject

\* The runs of the onAuthentication callback on socket c so far (each run
\* creates one subscriptions table, kept until the end).
SetupRuns(c) == Len(subs[c])

\* C24: whatever authenticate messages a connection sends, the gateway's
\* per-connection setup runs at most once on it, and a connection that was
\* authenticated is not closed by the authentication logic.
C24_SetupRunsAtMostOnce ==
    \A c \in Conns :
        /\ SetupRuns(c) <= 1
        /\ authenticated[c] => closedBy[c] # "auth"

\* The successful dispatches among the calls of the last step.
Successful(k) == k.op = "callAction" /\ k.found /\ k.valid /\ k.reduced

\* C22: the snapshot changes only in a step that makes a successful
\* dispatch; registerReducer, subscribe, the function it returned,
\* emitEvent under any name, getState and the gateway messages other than
\* `action` leave it as it is.
C22_OnlyDispatchChangesSnapshot ==
    [][state' # state => \E i \in DOMAIN calls' : Successful(calls'[i])]_vars

\* An emitEvent of `update` has just been made on a snapshot that earlier
\* dispatches had changed, with a subscriber that read getState() in it.
C22_Witness ==
    /\ state # InitialState
    /\ \E i \in DOMAIN calls :
          /\ calls[i].op = "emitEvent"
          /\ calls[i].key = <<SegUpdate>>
          /\ calls[i].out # <<>>
          /\ calls[i].post = state

\* The call's validator or, the validator passed, its reducer threw.
ThrewBeforeCommit(k) ==
    /\ k.op = "callAction"
    /\ Registered(k)
    /\ \/ ValidateThrows(actions[ToUpperCase(k.key)].validate, k.data)
       \/ /\ ~ValidateThrows(actions[ToUpperCase(k.key)].validate, k.data)
          /\ Passes(k)
          /\ ReduceThrows(Mutator(k), k.pre, k.data)

\* C25: when the validator or the reducer of a dispatched action throws,
\* the exception leaves callAction, the snapshot is the one before the
\* dispatch and the dispatch emits nothing.
C25_ThrowingMutatorLeavesSnapshot ==
    \A i \in DOMAIN calls :
        ThrewBeforeCommit(calls[i]) =>
            /\ calls[i].threw
            /\ calls[i].post = calls[i].pre
            /\ state = calls[i].pre
            /\ calls[i].pubs = <<>>
            /\ calls[i].out = <<>>

\* A reducer has thrown (the validator passed) on a snapshot earlier
\* dispatches changed, with a subscriber of every event registered.
C25_Witness ==
    /\ state # InitialState
    /\ all # <<>>
    /\ \E i \in DOMAIN calls :
          /\ ThrewBeforeCommit(calls[i])
          /\ ~ValidateThrows(actions[ToUpperCase(calls[i].key)].validate,
                             calls[i].data)

\* A sequence without the repetitions of an element next to itself.
RECURSIVE Squeeze(_)
Squeeze(seq) ==
    IF Len(seq) < 2 THEN seq
    ELSE IF seq[1] = seq[2] THEN Squeeze(Tail(seq))
         ELSE <<seq[1]>> \o Squeeze(Tail(seq))

\* The actions whose `update` event callback f was called with, in the
\* order of the calls.
UpdatesSeenBy(k, f) ==
    LET invs == SelectSeq(k.out, LAMBDA inv : inv.fn = f /\ inv.type = <<SegUpdate>>)
    IN  [j \in DOMAIN invs |-> invs[j].data.action]

\* C21: also when a subscriber calls callAction during the emits of a
\* dispatch, every subscriber of `update` or `*` is called with the `update`
\* events in the order in which the dispatches set the state, and the state
\* in the data of an action:<ID> event is what getState() returns when
\* the event is delivered.
C21_ReentrantDispatchKeepsOrder ==
    \A i \in ActionCalls :
        ~calls[i].threw =>
           /\ \A j \in DOMAIN calls[i].out :
                 LET inv == calls[i].out[j]
                 IN  /\ inv.type = <<SegUpdate>> =>
                           Squeeze(UpdatesSeenBy(calls[i], inv.fn))
                              = Squeeze(calls[i].commits)
                     /\ Len(inv.type) = 2 /\ inv.type[1] = SegAction =>
                           inv.data.state = inv.view

\* What getState() returns, with the value under `bahn` read through.
GetStateDeep ==
    [k \in DOMAIN state |-> IF k = KeyBahn THEN heap[state[k]] ELSE state[k]]

\* C23: once a dispatch has set the state, a write through the object the
\* reducer returned, through the snapshot before or through the `state` of
\* an update or action:<ID> payload, to a property of the object or of a
\* value nested in it, does not change what getState() returns.
C23_SnapshotIsolatedFromReferences ==
    [][(\E o \in Origins, n \in BOOLEAN : WriteThrough(1, o, n))
          => GetStateDeep' = GetStateDeep]_vars

\* C26: in every namespace, a socket that is not authenticated is not in
\* `connected`; and when a socket is authenticated it is put in `connected`
\* of the namespaces it had joined before, and of no other.
C26_ConnectedOnlyWhenAuthenticated ==
    [][/\ \A ns \in Namespaces, c \in Conns :
             /\ c \in nsps[ns].connected => authenticated[c]
             /\ c \in nsps'[ns].connected => authenticated'[c]
       /\ \A c \in Conns :
             ~authenticated[c] /\ authenticated'[c] =>
                \A ns \in Namespaces :
                   c \in nsps'[ns].connected <=> c \in nsps[ns].sockets]_vars

\* One socket is authenticated and in `connected` of a namespace, while
\* another has joined the namespace, is open, has sent an invalid token
\* and is not in `connected`.
C26_Witness ==
    \E ns \in Namespaces, c, d \in Conns :
        /\ authenticated[c] /\ conn[c] = "open" /\ c \in nsps[ns].connected
        /\ ~authenticated[d] /\ conn[d] = "open"
        /\ "INVALID_TOKEN" \in hist[d].unauth
        /\ d \in nsps[ns].sockets
        /\ d \notin nsps[ns].connected
====
